---- MODULE Spec2Model ----
(***************************************************************************)
(* RemindMeBot (remindme_bot.py): the reminders table, the scheduler task  *)
(* that polls it, the delivery queue and the queue_worker task that        *)
(* drains it, on one asyncio event loop; the handlers of !remind, !settz   *)
(* and !mytz with the two timezone tables; the ready event.                *)
(*                                                                         *)
(* Tasks are cooperative: a task runs from one await that suspends it to   *)
(* the next, so each action below is one such run.  `await queue_message`  *)
(* and `await send_reminder` never suspend (they contain no suspending     *)
(* await), so a whole poll cycle is one run; the suspension points are the *)
(* asyncio.sleep calls and `await allowed_channel.send`.                   *)
(*                                                                         *)
(* Time is counted in whole seconds.  `now` is the clock's seconds; the    *)
(* sub-second part of a clock reading is an input of the action that reads *)
(* the clock.  Sleeps are timers that Tick counts down; asyncio.sleep(d)   *)
(* resumes no earlier than d later, possibly later.                        *)
(***************************************************************************)
EXTENDS Integers, Sequences, FiniteSets, TLC

\* ---------------- bounds ----------------
\* The clock's seconds stop at MaxClock: no reminder is created that is due at
\* or after MaxClock, so at the horizon every stored reminder is due.
MaxClock == 3
\* Reminders created over a run (ids 1..MaxReminders).
MaxReminders == 2
\* Store statements (SELECT, DELETE) that raise over a run.
MaxStoreFaults == 1
\* Ready events delivered by the gateway over a run.
MaxReady == 1
\* Further ready events (reconnects) in the runs of ReconnectSpec.
MaxReconnects == 1

\* ---------------- program constants (seconds) ----------------
SEND_INTERVAL == 1
BURST_WINDOW == 2
\* asyncio.sleep(0.2) of the idle delivery loop: less than one second of the clock
IDLE_POLL == 0
WORKER_BACKOFF == 2
SCHED_PERIOD == 5
SCHED_BACKOFF == 5

\* ---------------- text of a timestamp ----------------
\* Character codes of the characters isoformat() can produce here.
PLUS == 43
DOT == 46
ZERO == 48

Digit(d) == ZERO + d

\* The tenths of a second a clock reading can carry (0: microsecond == 0).
SubSecond == {0, 5}

\* A datetime: seconds and tenths.
DateTime(sec, ten) == [sec |-> sec, ten |-> ten]

\* datetime.isoformat() of an aware UTC datetime: the seconds zero-padded to a
\* fixed width, the fraction only when it is not zero, then the offset "+00:00"
\* (its first character is kept).
IsoFormat(dt) ==
    <<Digit(dt.sec \div 10), Digit(dt.sec % 10)>>
        \o (IF dt.ten = 0 THEN <<>> ELSE <<DOT, Digit(dt.ten)>>)
        \o <<PLUS>>

\* dateutil.parser.isoparse of such a text.
IsoParse(s) ==
    DateTime(10 * (s[1] - ZERO) + (s[2] - ZERO),
             IF s[3] = DOT THEN s[4] - ZERO ELSE 0)

\* a <= b on datetimes (remind_dt <= now, line 175).
DtLeq(a, b) == a.sec < b.sec \/ (a.sec = b.sec /\ a.ten <= b.ten)

\* SQLite's BINARY collation on TEXT: bytewise, a proper prefix sorts first.
RECURSIVE TextLess(_, _)
TextLess(a, b) ==
    IF b = <<>> THEN FALSE
    ELSE IF a = <<>> THEN TRUE
    ELSE IF Head(a) # Head(b) THEN Head(a) < Head(b)
    ELSE TextLess(Tail(a), Tail(b))

\* ---------------- durations ----------------
\* The duration argument of !remind, as typed: a sequence of characters.
DurationInputs ==
    { <<"1", "s">>, <<"2", "s">>, <<"1", "S">>, <<"0", "s">>, <<"1", "m">>, <<"1", "x">> }

DigitChars == {"0", "1", "2"}
DigitValue(c) == CASE c = "0" -> 0 [] c = "1" -> 1 [] c = "2" -> 2

\* str.lower() on the characters used here.
Lower(c) == CASE c = "S" -> "s" [] c = "M" -> "m" [] OTHER -> c

UnitSeconds(u) ==
    CASE u = "d" -> 86400 [] u = "h" -> 3600 [] u = "m" -> 60 [] u = "s" -> 1

RECURSIVE IntOf(_)
IntOf(ds) ==
    IF ds = <<>> THEN 0
    ELSE 10 * IntOf(SubSeq(ds, 1, Len(ds) - 1)) + DigitValue(ds[Len(ds)])

\* parse_simple_time: seconds of the timedelta, or -1 for None.
parse_simple_time(t) ==
    LET l == [i \in 1..Len(t) |-> Lower(t[i])]
        n == Len(l)
    IN  IF /\ n >= 2
           /\ \A i \in 1..(n - 1) : l[i] \in DigitChars
           /\ l[n] \in {"d", "h", "m", "s"}
        THEN IntOf(SubSeq(l, 1, n - 1)) * UnitSeconds(l[n])
        ELSE -1

\* ---------------- timezones ----------------
Users == {"u1"}
Channels == {"c1"}

\* The timezone argument of !settz and !mytz, as typed.
TzInputs == {"UTC", "America/New_York", "Mars/Phobos"}

\* The role ids a command's author can carry, and the admin role a
\* configuration can name ("": the key is absent from token.ini).
RoleSets == {{}, {"admin"}}
AdminRoleIds == {"", "admin"}

\* dateutil.tz.gettz(name): the zone of a name of the tz database, None otherwise.
gettz(name) == IF name \in {"UTC", "America/New_York"} THEN name ELSE "None"

\* dt.astimezone(tz).strftime('... %Z'): the abbreviation of the zone the time
\* is shown in (standard time); the digits of the wall clock are left out.
LocalTime(dt, tz) == CASE tz = "America/New_York" -> "EST" [] OTHER -> "UTC"

\* fetchone() of a SELECT that matches no row.
NoRow == "none"

\* A fragment that carries no time (the announcement of on_ready).
NoTime == "-"

\* ---------------- state ----------------
VARIABLES
    now,              \* the clock, seconds (stops at MaxClock)
    reminders,        \* rows of the reminders table
    lastId,           \* AUTOINCREMENT: the largest id ever assigned
    message_queue,    \* the deque of pending fragments
    allowed_channel,  \* "none" until on_ready fetched the channel
    worker,           \* the queue_worker tasks
    sched,            \* the scheduler tasks
    storeFaults,      \* store statements that have raised so far
    enqLog,           \* every fragment appended to message_queue, in order
    sendLog,          \* every allowed_channel.send call, in order
    user_settings,    \* the user_settings table: user_id -> timezone
    server_settings,  \* the server_settings table: channel_id -> timezone
    admin_role_id,    \* the configured admin role ("": none configured)
    reply             \* the last ctx.reply of a command handler

vars == <<now, reminders, lastId, message_queue, allowed_channel, worker, sched,
          storeFaults, enqLog, sendLog,
          user_settings, server_settings, admin_role_id, reply>>

\* What the handlers of the timezone commands read and write.
settings == <<user_settings, server_settings, admin_role_id>>

\* Slots for the task pairs on_ready creates, one per ready event.
Tasks == 1..(MaxReady + MaxReconnects)

Min(a, b) == IF a <= b THEN a ELSE b
Max(a, b) == IF a >= b THEN a ELSE b

\* Seconds after which elapsed time is no longer told apart.
SinceCap == BURST_WINDOW + 1

\* A task that was never created.
NoWorker == [pc |-> "none", timer |-> 0, call |-> 0, since |-> -1]
NoSched == [pc |-> "none", timer |-> 0]

\* ctx.reply texts, by kind; rid is the id a "reminder_set" reply names.
Reply(kind, rid) == [kind |-> kind, rid |-> rid]
NoReply == Reply("none", 0)

\* The state after the module body and __main__ ran, with the admin role role
\* read from the configuration; init_db leaves the three tables empty.
Boot(role) ==
    /\ now = 0
    /\ reminders = {}
    /\ lastId = 0
    /\ message_queue = <<>>
    /\ allowed_channel = "none"
    /\ worker = [w \in Tasks |-> NoWorker]
    /\ sched = [s \in Tasks |-> NoSched]
    /\ storeFaults = 0
    /\ enqLog = <<>>
    /\ sendLog = <<>>
    /\ user_settings = [u \in Users |-> NoRow]
    /\ server_settings = [c \in Channels |-> NoRow]
    /\ admin_role_id = role
    /\ reply = NoReply

\* A configuration without admin_role_id: get_config returns "".
Init == Boot("")

\* Any configuration.
CmdInit == \E role \in AdminRoleIds : Boot(role)

\* Faulty variant of get_tz_context: the channel's row is looked up first.
get_tz_context_ChannelFirst(channel_id, user_id) ==
    LET name == IF server_settings[channel_id] # NoRow THEN server_settings[channel_id]
                ELSE IF user_settings[user_id] # NoRow THEN user_settings[user_id]
                ELSE "UTC"
    IN  [tz |-> gettz(name), name |-> name]

\* get_tz_context(conn, channel_id, user_id): the user's row, else the
\* channel's row, else UTC; the zone object and its name.
get_tz_context(channel_id, user_id) ==
    LET name == IF user_settings[user_id] # NoRow THEN user_settings[user_id]
                ELSE IF server_settings[channel_id] # NoRow THEN server_settings[channel_id]
                ELSE "UTC"
    IN  [tz |-> gettz(name), name |-> name]

\* ---------------- time ----------------
\* d seconds pass: the clock moves, sleeps run down, elapsed times grow.
ClockAfter(d) == Min(now + d, MaxClock)

WorkerAfter(wr, d) ==
    [wr EXCEPT !.timer = Max(0, @ - d),
               !.since = IF @ = -1 THEN -1 ELSE Min(@ + d, SinceCap)]

SchedAfter(sr, d) == [sr EXCEPT !.timer = Max(0, @ - d)]

Tick ==
    /\ now' = ClockAfter(1)
    /\ worker' = [w \in Tasks |-> WorkerAfter(worker[w], 1)]
    /\ sched' = [s \in Tasks |-> SchedAfter(sched[s], 1)]
    /\ UNCHANGED <<reminders, lastId, message_queue, allowed_channel,
                   storeFaults, enqLog, sendLog, settings, reply>>

\* ---------------- the delivery queue ----------------
\* Send calls whose collection started at most BURST_WINDOW seconds ago.
RecentCalls ==
    { worker[w].call : w \in { v \in Tasks :
        /\ worker[v].call > 0
        /\ worker[v].since + sendLog[worker[v].call].elapsed <= BURST_WINDOW } }

\* Firing poll cycles so far.
Cycles == IF enqLog = <<>> THEN 0
          ELSE CHOOSE c \in 0..Len(enqLog) :
                 /\ \E i \in 1..Len(enqLog) : enqLog[i].cyc = c
                 /\ \A i \in 1..Len(enqLog) : enqLog[i].cyc <= c

\* The fragment of reminder rid (0: the announcement) enqueued as the n-th, with
\* the local time its text shows.
Fragment(n, rid, cyc, local) == [n |-> n, rid |-> rid, cyc |-> cyc, local |-> local]

\* queue_message: deque.append.
queue_message(q, f) == Append(q, f)

\* Faulty variant of PopBatch: pop() takes from the right end.
PopBatch_Right(q, k) == [i \in 1..k |-> q[Len(q) + 1 - i]]

\* Faulty variant of Remaining: a collection that stops early clears the deque.
Remaining_Cleared(q, k) == <<>>

\* The first k results of message_queue.popleft(), in order, and what is left.
PopBatch(q, k) == SubSeq(q, 1, k)
Remaining(q, k) == SubSeq(q, k + 1, Len(q))

\* Faulty variant of WindowOver: the collection stops after any fragment.
WindowOver_Always(elapsed) == elapsed >= 0

\* (datetime.now() - now).total_seconds() > BURST_WINDOW
WindowOver(elapsed) == elapsed > BURST_WINDOW

\* Faulty variant of PostSendSleep: the handler of a failed send does not sleep.
PostSendSleep_NoBackoff(ok) == IF ok THEN SEND_INTERVAL ELSE 0

\* The sleep after a send attempt: SEND_INTERVAL, or the backoff of the handler.
PostSendSleep(ok) == IF ok THEN SEND_INTERVAL ELSE WORKER_BACKOFF

\* Faulty variant of Caught: no handler, the exception ends the task.
Caught_Raised(backoff) == [pc |-> "done", timer |-> 0]

\* except Exception: the error is logged, the task sleeps for the backoff and
\* goes round its while loop again.
Caught(backoff) == [pc |-> "backoff", timer |-> backoff]

\* Faulty variant of Requeued: a batch whose send raised is put back.
Requeued_OnFailure(batch, ok) == IF ok THEN <<>> ELSE batch

\* The fragments a delivery loop puts back on the deque after a send attempt:
\* none, neither after a send that returned nor in the handler of one that raised.
Requeued(batch, ok) == <<>>

\* Faulty variant of BatchSizes: the window is tested before the first popleft.
BatchSizes_FromZero(q) == 0..Len(q)

\* The numbers of fragments one collection can take from a deque that is not
\* empty: `while message_queue:` pops before it tests the window.
BatchSizes(q) == 1..Len(q)

\* A task that exists, is not suspended in a send and whose sleep is over.
Runnable(t) == t.pc \notin {"none", "send", "done"} /\ t.timer = 0

\* queue_worker, queue empty: await asyncio.sleep(0.2); continue
WorkerIdle(w) ==
    /\ Runnable(worker[w])
    /\ message_queue = <<>>
    /\ worker' = [worker EXCEPT ![w].pc = "idle", ![w].timer = IDLE_POLL]
    /\ UNCHANGED <<now, reminders, lastId, message_queue, allowed_channel, sched,
                   storeFaults, enqLog, sendLog, settings, reply>>

\* queue_worker, queue not empty: the collection loop pops k fragments; it stops
\* early only when the window is over, `elapsed` seconds after it started (the
\* time a collection that empties the deque takes is left to Tick).  The
\* batch is joined and allowed_channel.send is called; the task is suspended in
\* the send.
WorkerCollect(w) ==
    /\ Runnable(worker[w])
    /\ message_queue # <<>>
    /\ \E k \in BatchSizes(message_queue), elapsed \in {0, BURST_WINDOW + 1} :
        /\ k < Len(message_queue) => WindowOver(elapsed)
        /\ k = Len(message_queue) => elapsed = 0
        /\ message_queue' = Remaining(message_queue, k)
        /\ now' = ClockAfter(elapsed)
        /\ sched' = [s \in Tasks |-> SchedAfter(sched[s], elapsed)]
        /\ IF allowed_channel = "none"
           THEN \* None.send raises AttributeError: the handler backs off
                /\ worker' = [v \in Tasks |->
                     IF v = w
                     THEN [WorkerAfter(worker[v], elapsed) EXCEPT
                             !.pc = Caught(WORKER_BACKOFF).pc,
                             !.timer = Caught(WORKER_BACKOFF).timer]
                     ELSE WorkerAfter(worker[v], elapsed)]
                /\ UNCHANGED sendLog
           ELSE /\ sendLog' = Append(sendLog,
                     [w |-> w,
                      frags |-> PopBatch(message_queue, k),
                      elapsed |-> elapsed,
                      result |-> "pending"])
                /\ worker' = [v \in Tasks |->
                     IF v = w
                     THEN [pc |-> "send", timer |-> 0,
                           call |-> Len(sendLog) + 1, since |-> 0]
                     ELSE WorkerAfter(worker[v], elapsed)]
    /\ UNCHANGED <<reminders, lastId, allowed_channel, storeFaults, enqLog,
                   settings, reply>>

\* The send returns (ok) or raises (not ok); the task sleeps.
SendDone(w, ok) ==
    /\ worker[w].pc = "send"
    /\ sendLog' = [sendLog EXCEPT ![worker[w].call].result =
                      IF ok THEN "ok" ELSE "failed"]
    /\ worker' = [worker EXCEPT
           ![w].pc = IF ok THEN "cooldown" ELSE Caught(WORKER_BACKOFF).pc,
           ![w].timer = PostSendSleep(ok)]
    /\ message_queue' = Requeued(sendLog[worker[w].call].frags, ok) \o message_queue
    /\ UNCHANGED <<now, reminders, lastId, allowed_channel, sched,
                   storeFaults, enqLog, settings, reply>>

SendOk(w) == SendDone(w, TRUE)
SendFail(w) == SendDone(w, FALSE)

\* ---------------- the scheduler ----------------
\* SELECT * FROM reminders ORDER BY remind_time ASC: the rows in ascending order
\* of the TEXT column; rows with equal text come in either order.
OrderBy(rows) ==
    { q \in [1..Cardinality(rows) -> rows] :
        /\ \A i, j \in DOMAIN q : i # j => q[i] # q[j]
        /\ \A i, j \in DOMAIN q :
             i < j => ~TextLess(q[j].remind_time, q[i].remind_time) }

\* Faulty variant of IsDue: a reminder more than a second late is taken for stale.
IsDue_Fresh(time_str, nowdt) ==
    /\ DtLeq(IsoParse(time_str), nowdt)
    /\ nowdt.sec <= IsoParse(time_str).sec + 1

\* Faulty variant of IsDue: remind_dt < now.
IsDue_Strict(time_str, nowdt) ==
    ~DtLeq(nowdt, IsoParse(time_str))

\* remind_dt = isoparse(time_str); remind_dt <= now
IsDue(time_str, nowdt) == DtLeq(IsoParse(time_str), nowdt)

\* The rows the loop hands to send_reminder, in the order it meets them.
DueRows(rows, nowdt) == SelectSeq(rows, LAMBDA r : IsDue(r.remind_time, nowdt))

\* send_reminder enqueues, then deletes.  failAt = 0: no statement raises;
\* failAt = k: the DELETE of the k-th due row raises, after its fragment was
\* enqueued, and the exception leaves the for loop.
\* Faulty variant of DeletedRows: when a DELETE raises, the due rows behind the
\* row it raised on are deleted without having been fired.
DeletedRows_Rest(due, failAt) ==
    IF failAt = 0 THEN due
    ELSE SubSeq(due, 1, failAt - 1) \o SubSeq(due, failAt + 1, Len(due))

\* Faulty variant of DeletedRows: every due row is deleted, whatever was enqueued.
DeletedRows_All(due, failAt) == due

FiredRows(due, failAt) == IF failAt = 0 THEN due ELSE SubSeq(due, 1, failAt)
DeletedRows(due, failAt) == IF failAt = 0 THEN due ELSE SubSeq(due, 1, failAt - 1)

Range(q) == { q[i] : i \in DOMAIN q }

\* Faulty variant of RenderZone: the zone in force at delivery is looked up.
RenderZone_Current(r) == get_tz_context(r.channel_id, r.user_id).tz

\* send_reminder: user_tz = gettz(tz_name) or UTC, tz_name being the row's
\* original_tz column.
RenderZone(r) ==
    IF gettz(r.original_tz) = "None" THEN "UTC" ELSE gettz(r.original_tz)

\* Faulty variant of Delete: WHERE id<=?
Delete_UpTo(rows, id) == { r \in rows : r.id > id }

\* DELETE FROM reminders WHERE id=?: no row matching is not an error.
Delete(rows, id) == { r \in rows : r.id # id }

\* The table after the DELETE statements of the rows of seq, one after another.
RECURSIVE DeleteEach(_, _)
DeleteEach(rows, seq) ==
    IF seq = <<>> THEN rows ELSE DeleteEach(Delete(rows, Head(seq).id), Tail(seq))

\* One poll cycle that gets past its SELECT.
PollRun(s, nowdt, rows, failAt) ==
    LET due == DueRows(rows, nowdt)
        fired == FiredRows(due, failAt)
        cyc == Cycles + 1
        frags == [i \in 1..Len(fired) |->
                    Fragment(Len(enqLog) + i, fired[i].id, cyc,
                             LocalTime(IsoParse(fired[i].remind_time),
                                       RenderZone(fired[i])))]
    IN  /\ failAt <= Len(due)
        /\ failAt > 0 => storeFaults < MaxStoreFaults
        /\ storeFaults' = IF failAt > 0 THEN storeFaults + 1 ELSE storeFaults
        /\ message_queue' = message_queue \o frags
        /\ enqLog' = enqLog \o frags
        /\ reminders' = DeleteEach(reminders, DeletedRows(due, failAt))
        /\ sched' = [sched EXCEPT
               ![s] = IF failAt = 0
                      THEN [pc |-> "sleep", timer |-> SCHED_PERIOD]
                      ELSE Caught(SCHED_BACKOFF)]
        /\ UNCHANGED <<now, lastId, allowed_channel, worker, sendLog, settings, reply>>

\* One poll cycle whose SELECT raises.
PollSelectFails(s) ==
    /\ storeFaults < MaxStoreFaults
    /\ storeFaults' = storeFaults + 1
    /\ sched' = [sched EXCEPT ![s] = Caught(SCHED_BACKOFF)]
    /\ UNCHANGED <<now, reminders, lastId, message_queue, allowed_channel, worker,
                   enqLog, sendLog, settings, reply>>

\* scheduler: one iteration of its while loop, up to the sleep that ends it.
PollCycle(s) ==
    /\ Runnable(sched[s])
    /\ \/ PollSelectFails(s)
       \/ \E ten \in SubSecond, rows \in OrderBy(reminders),
             failAt \in 0..Cardinality(reminders) :
            PollRun(s, DateTime(now, ten), rows, failAt)

\* ---------------- events ----------------
\* on_ready: the channel is fetched, the announcement enqueued, one queue_worker
\* and one scheduler task created, whatever tasks exist already.  The gateway
\* delivers at most `limit` ready events.
on_ready(limit) ==
    /\ Cardinality({ t \in Tasks : worker[t].pc # "none" }) < limit
    /\ LET t == CHOOSE u \in Tasks :
                  worker[u].pc = "none" /\ \A v \in Tasks : v < u => worker[v].pc # "none"
           f == Fragment(Len(enqLog) + 1, 0, 0, NoTime)
       IN  /\ allowed_channel' = "chan"
           /\ message_queue' = queue_message(message_queue, f)
           /\ enqLog' = Append(enqLog, f)
           /\ worker' = [worker EXCEPT ![t] = [NoWorker EXCEPT !.pc = "start"]]
           /\ sched' = [sched EXCEPT ![t] = [NoSched EXCEPT !.pc = "start"]]
    /\ UNCHANGED <<now, reminders, lastId, storeFaults, sendLog, settings, reply>>

OnReady == on_ready(MaxReady)

\* ---------------- the store's row ids ----------------
MaxId(rows) == IF rows = {} THEN 0
               ELSE CHOOSE m \in { r.id : r \in rows } : \A r \in rows : r.id <= m

\* Faulty variant of NextRowId: INTEGER PRIMARY KEY without AUTOINCREMENT.
NextRowId_Reuse(rows, seq) == MaxId(rows) + 1

\* id INTEGER PRIMARY KEY AUTOINCREMENT: one more than the largest id the table
\* ever held (sqlite_sequence), whatever was deleted since.
NextRowId(rows, seq) == Max(seq, MaxId(rows)) + 1

\* ---------------- commands ----------------
\* Faulty variant of Returns: the `return` after "Invalid timezone." is missing.
Returns_NotOnInvalidTz(kind) == kind \in {"invalid_time", "admin_only"}

\* The replies after which a handler returns without reaching its INSERT.
Returns(kind) == kind \in {"invalid_time", "invalid_tz", "admin_only"}

\* INSERT OR REPLACE INTO <settings table> VALUES (key, timezone)
Upsert(table, key, timezone) == [table EXCEPT ![key] = timezone]

\* !remind <time_str> <message> by user_id in channel_id: a duration that does
\* not parse, or parses to a zero timedelta (falsy), is answered "Invalid time
\* format" and nothing is stored; otherwise one row is inserted with
\* remind_time = now + delta and the timezone name get_tz_context resolves, and
\* the reply names the row's id.
Remind(user_id, channel_id, time_str) ==
    LET delta == parse_simple_time(time_str)
        kind == IF delta <= 0 THEN "invalid_time" ELSE "reminder_set"
    IN  IF Returns(kind)
        THEN /\ reply' = Reply(kind, 0)
             /\ UNCHANGED <<now, reminders, lastId, message_queue, allowed_channel,
                            worker, sched, storeFaults, enqLog, sendLog, settings>>
        ELSE \E ten \in SubSecond :
             LET remind_dt == DateTime(now + Max(delta, 0), ten)
                 rid == NextRowId(reminders, lastId)
             IN  /\ lastId < MaxReminders
                 /\ remind_dt.sec < MaxClock
                 /\ reminders' = reminders \cup
                        {[id |-> rid,
                          channel_id |-> channel_id,
                          user_id |-> user_id,
                          remind_time |-> IsoFormat(remind_dt),
                          original_tz |-> get_tz_context(channel_id, user_id).name]}
                 /\ lastId' = Max(lastId, rid)
                 /\ reply' = Reply(kind, rid)
                 /\ UNCHANGED <<now, message_queue, allowed_channel, worker, sched,
                                storeFaults, enqLog, sendLog, settings>>

\* !settz <timezone> in channel_id by an author with the roles role_ids.
SetTz(role_ids, channel_id, timezone) ==
    LET kind == IF admin_role_id # "" /\ admin_role_id \notin role_ids
                THEN "admin_only"
                ELSE IF gettz(timezone) = "None" THEN "invalid_tz" ELSE "tz_set"
    IN  /\ reply' = Reply(kind, 0)
        /\ server_settings' = IF Returns(kind) THEN server_settings
                              ELSE Upsert(server_settings, channel_id, timezone)
        /\ UNCHANGED <<now, reminders, lastId, message_queue, allowed_channel, worker,
                       sched, storeFaults, enqLog, sendLog, user_settings,
                       admin_role_id>>

\* !mytz <timezone> by user_id.
MyTz(user_id, timezone) ==
    LET kind == IF gettz(timezone) = "None" THEN "invalid_tz" ELSE "mytz_set"
    IN  /\ reply' = Reply(kind, 0)
        /\ user_settings' = IF Returns(kind) THEN user_settings
                            ELSE Upsert(user_settings, user_id, timezone)
        /\ UNCHANGED <<now, reminders, lastId, message_queue, allowed_channel, worker,
                       sched, storeFaults, enqLog, sendLog, server_settings,
                       admin_role_id>>

\* ---------------- the program ----------------
\* The durations parse_simple_time accepts.
Accepted == { t \in DurationInputs : parse_simple_time(t) > 0 }

\* Runs with one user in one channel whose commands are reminders that are
\* accepted: rejected commands and the timezone commands are the matter of
\* CmdSpec, repeated ready events of ReconnectSpec.
Next ==
    \/ Tick
    \/ OnReady
    \/ \E time_str \in Accepted : Remind("u1", "c1", time_str)
    \/ \E w \in Tasks : WorkerIdle(w)
    \/ \E w \in Tasks : WorkerCollect(w)
    \/ \E w \in Tasks : SendOk(w)
    \/ \E w \in Tasks : SendFail(w)
    \/ \E s \in Tasks : PollCycle(s)

Spec == Init /\ [][Next]_vars

\* The command layer and the scheduler, under any configuration: every
\* duration and timezone argument, accepted or rejected.  The steps of
\* the delivery loops are left out (they read and write message_queue and
\* sendLog only), so fragments stay where the scheduler put them.
CmdNext ==
    \/ Tick
    \/ OnReady
    \/ \E user_id \in Users, channel_id \in Channels, time_str \in DurationInputs :
          Remind(user_id, channel_id, time_str)
    \/ \E role_ids \in RoleSets, channel_id \in Channels, timezone \in TzInputs :
          SetTz(role_ids, channel_id, timezone)
    \/ \E user_id \in Users, timezone \in TzInputs : MyTz(user_id, timezone)
    \/ \E s \in Tasks : PollCycle(s)

CmdSpec == CmdInit /\ [][CmdNext]_vars

\* The gateway delivers the ready event again (a reconnect): the tasks and the
\* queue, without commands.
OnReadyAgain == on_ready(MaxReady + MaxReconnects)

ReconnectNext ==
    \/ Tick
    \/ OnReadyAgain
    \/ \E w \in Tasks : WorkerIdle(w)
    \/ \E w \in Tasks : WorkerCollect(w)
    \/ \E w \in Tasks : SendOk(w)
    \/ \E w \in Tasks : SendFail(w)
    \/ \E s \in Tasks : PollCycle(s)

ReconnectSpec == Init /\ [][ReconnectNext]_vars

\* ---------------- what the logs say ----------------
Ids == 1..MaxReminders

Stored(id) == \E r \in reminders : r.id = id
Created(id) == id <= lastId

\* The positions in enqLog of the notifications of reminder id.
Firings(id) == { i \in DOMAIN enqLog : enqLog[i].rid = id }

Pending(f) == f \in Range(message_queue)
InCall(f, c) == f \in Range(sendLog[c].frags)
Handed(f) == \E c \in DOMAIN sendLog : InCall(f, c)
Delivered(f) == \E c \in DOMAIN sendLog : InCall(f, c) /\ sendLog[c].result = "ok"
InFlight(f) == \E c \in DOMAIN sendLog : InCall(f, c) /\ sendLog[c].result = "pending"
Dropped(f) == \E c \in DOMAIN sendLog : InCall(f, c) /\ sendLog[c].result = "failed"

\* All fragments handed to the transport, in the order of the send calls.
RECURSIVE Flatten(_)
Flatten(log) ==
    IF log = <<>> THEN <<>>
    ELSE Flatten(SubSeq(log, 1, Len(log) - 1)) \o log[Len(log)].frags

\* ---------------- C1 ----------------
\* C1 (fire-once): the notification of a reminder id is enqueued onto the
\* delivery queue at most once, whatever poll cycles abort.
C1_FireOnce == \A id \in Ids : Cardinality(Firings(id)) <= 1

\* ---------------- C2 ----------------
\* C2 as claimed: every reminder that was created and is no longer in the store
\* has its notification pending in the delivery queue (or in the send call in
\* flight) or delivered by a successful send.
C2_DeletedIsPendingOrDelivered ==
    \A id \in Ids :
        Created(id) /\ ~Stored(id) =>
            \E i \in Firings(id) :
                Pending(enqLog[i]) \/ InFlight(enqLog[i]) \/ Delivered(enqLog[i])

\* C2 as amended: every reminder that was created and is no longer in the store
\* has been fired (its notification was enqueued), and each of its notifications
\* is pending in the queue or was handed to the transport in a send call, which
\* is in flight, has succeeded or has failed.
C2_DeletedHasFired ==
    \A id \in Ids :
        Created(id) /\ ~Stored(id) =>
            /\ Firings(id) # {}
            /\ \A i \in Firings(id) : Pending(enqLog[i]) \/ Handed(enqLog[i])

\* A deleted reminder whose only notification was in a batch whose send failed.
C2_Witness ==
    \E id \in Ids :
        /\ Created(id) /\ ~Stored(id)
        /\ \A i \in Firings(id) : Dropped(enqLog[i])

\* ---------------- C7 ----------------
\* C7 (FIFO delivery): the fragments handed to the transport, concatenated over
\* the send calls in call order, are a prefix of the fragments in enqueue order.
C7_Fifo ==
    LET flat == Flatten(sendLog)
    IN  /\ Len(flat) <= Len(enqLog)
        /\ flat = SubSeq(enqLog, 1, Len(flat))

\* Two send calls that carried three fragments, one of them with two.
C7_Witness ==
    /\ Len(sendLog) >= 2
    /\ Len(Flatten(sendLog)) >= 3
    /\ \E c \in DOMAIN sendLog : Len(sendLog[c].frags) >= 2

\* ---------------- poll cycles as steps ----------------
\* The fragments a step enqueues, in order.
Enqueued == SubSeq(enqLog', Len(enqLog) + 1, Len(enqLog'))

\* The step is a poll cycle of scheduler s that completes without error.
PollCompletes(s) ==
    /\ Runnable(sched[s])
    /\ sched'[s] = [pc |-> "sleep", timer |-> SCHED_PERIOD]

\* The step is a poll cycle of scheduler s in which processing a row raises.
PollRaisesOnRow(s) ==
    /\ Runnable(sched[s])
    /\ sched'[s] = [pc |-> "backoff", timer |-> SCHED_BACKOFF]
    /\ Len(enqLog') > Len(enqLog)

\* The rows of the table that are due at the clock reading nowdt.
DueAt(nowdt) == { r \in reminders : DtLeq(IsoParse(r.remind_time), nowdt) }

RowOf(id) == CHOOSE r \in reminders : r.id = id

\* ---------------- C3 ----------------
\* C3 (due detection): a poll cycle that captures the time nowdt and completes
\* without error fires exactly the stored reminders with remind_time <= nowdt,
\* each once, in ascending remind_time order, deletes them, and leaves every
\* reminder with remind_time > nowdt in the store, not enqueued.
C3_DueDetection ==
    [][ \A s \in Tasks : PollCompletes(s) =>
          \E ten \in SubSecond :
            LET due == DueAt(DateTime(now, ten))
                new == Enqueued
            IN  /\ { new[i].rid : i \in DOMAIN new } = { r.id : r \in due }
                /\ Len(new) = Cardinality(due)
                /\ \A i, j \in DOMAIN new :
                     i < j => DtLeq(IsoParse(RowOf(new[i].rid).remind_time),
                                    IsoParse(RowOf(new[j].rid).remind_time))
                /\ reminders' = reminders \ due ]_vars

\* A completed cycle has fired a reminder and another reminder, due later than
\* the clock shows, is in the store.
C3_Witness ==
    /\ \E s \in Tasks : sched[s] = [pc |-> "sleep", timer |-> SCHED_PERIOD]
    /\ \E i \in DOMAIN enqLog : enqLog[i].rid # 0
    /\ \E r \in reminders : IsoParse(r.remind_time).sec > now

\* ---------------- C4 ----------------
\* C4 (burst coalescing): a fragment enqueued at most BURST_WINDOW seconds after
\* the start of a collection is part of the send call of that collection.
C4_BurstCoalescing ==
    [][ \A c \in RecentCalls : \A i \in DOMAIN Enqueued :
          Enqueued[i] \in Range(sendLog'[c].frags) ]_vars

\* ---------------- C5 ----------------
\* C5 (rate limiting): when a delivery loop calls send, at least SEND_INTERVAL
\* seconds have passed since its previous send call.
C5_RateLimit ==
    [][ \A w \in Tasks :
          worker'[w].call # worker[w].call /\ worker[w].call # 0 =>
            WorkerAfter(worker[w], sendLog'[worker'[w].call].elapsed).since
                >= SEND_INTERVAL ]_vars

\* One delivery loop has made two send calls, the first of which failed.
C5_Witness ==
    \E c, d \in DOMAIN sendLog :
        c < d /\ sendLog[c].w = sendLog[d].w /\ sendLog[c].result = "failed"

\* ---------------- C6 ----------------
\* C6 as claimed: the notifications of one poll cycle are all in one send call.
C6_OneSendPerCycle ==
    \A i, j \in DOMAIN enqLog : \A c \in DOMAIN sendLog :
        enqLog[i].cyc # 0 /\ enqLog[i].cyc = enqLog[j].cyc /\ InCall(enqLog[i], c)
            => InCall(enqLog[j], c)

\* C6 as amended: the notifications of one poll cycle are in one send call
\* unless a collection was cut by the burst window: when a send call carries one
\* notification of a cycle and not a later one of the same cycle, more than
\* BURST_WINDOW seconds passed during its collection; and it never carries a
\* later one without the earlier one having been handed over before.
C6_SplitOnlyByWindow ==
    \A i, j \in DOMAIN enqLog : \A c \in DOMAIN sendLog :
        enqLog[i].cyc # 0 /\ enqLog[i].cyc = enqLog[j].cyc /\ i < j =>
            /\ InCall(enqLog[i], c) /\ ~InCall(enqLog[j], c)
                 => sendLog[c].elapsed > BURST_WINDOW
            /\ InCall(enqLog[j], c) /\ ~InCall(enqLog[i], c)
                 => \E b \in 1..(c - 1) :
                      InCall(enqLog[i], b) /\ sendLog[b].elapsed > BURST_WINDOW

\* Two notifications of one cycle were handed over in one send call.
C6_Witness ==
    \E i, j \in DOMAIN enqLog : \E c \in DOMAIN sendLog :
        /\ i < j /\ enqLog[i].cyc # 0 /\ enqLog[i].cyc = enqLog[j].cyc
        /\ InCall(enqLog[i], c) /\ InCall(enqLog[j], c)

\* ---------------- C10 ----------------
\* C10 (per-item isolation): in a poll cycle in which processing one row raises,
\* every due row is still enqueued and every due row but the one that raised is
\* deleted.
C10_PerItemIsolation ==
    [][ \A s \in Tasks : PollRaisesOnRow(s) =>
          \E ten \in SubSecond :
            LET due == DueAt(DateTime(now, ten))
            IN  /\ { Enqueued[i].rid : i \in DOMAIN Enqueued } = { r.id : r \in due }
                /\ Cardinality(due \cap reminders') <= 1 ]_vars

\* ---------------- fairness ----------------
\* The event loop runs every task that is ready, a send returns or raises, and
\* time passes.  Store statements raise MaxStoreFaults times at most, so a
\* scheduler that keeps running meets a store that answers.
Fairness ==
    /\ WF_vars(Tick)
    /\ \A w \in Tasks : WF_vars(WorkerIdle(w) \/ WorkerCollect(w))
    /\ \A w \in Tasks : WF_vars(SendOk(w) \/ SendFail(w))
    /\ \A s \in Tasks : WF_vars(PollCycle(s))

LiveSpec == Init /\ [][Next]_vars /\ Fairness

\* The most fragments a run can enqueue: one announcement per ready event, one
\* notification per reminder and one more per DELETE that raised.
MaxEnq == MaxReady + MaxReminders + MaxStoreFaults

\* ---------------- C8 ----------------
\* C8 as claimed: every fragment enqueued on the delivery queue eventually is
\* part of a send that succeeds.
C8_EventuallyDelivered ==
    \A n \in 1..MaxEnq :
        (Len(enqLog) >= n) ~> (Len(enqLog) >= n /\ Delivered(enqLog[n]))

\* C8 as amended: every fragment enqueued on the delivery queue eventually is
\* handed to the transport in a send call (which may fail, and then the
\* fragment is not sent again).
C8_EventuallyHanded ==
    \A n \in 1..MaxEnq :
        (Len(enqLog) >= n) ~> (Len(enqLog) >= n /\ Handed(enqLog[n]))

\* A notification was handed to the transport in a send that failed, after an
\* earlier send call.
C8_Witness ==
    \E c \in DOMAIN sendLog :
        /\ c > 1 /\ sendLog[c].result = "failed"
        /\ \E i \in DOMAIN sendLog[c].frags : sendLog[c].frags[i].rid # 0

\* ---------------- C9 ----------------
\* The reminder id is in the store and due at every reading of the clock.
Overdue(id) ==
    \E r \in reminders : r.id = id /\ DtLeq(IsoParse(r.remind_time), DateTime(now, 0))

\* C9 (no stale discard): a stored reminder whose due time has passed, however
\* long ago, is eventually fired and removed from the store, once a scheduler
\* runs.
C9_DueEventuallyFired ==
    \A id \in Ids :
        (Overdue(id) /\ \E s \in Tasks : sched[s].pc # "none")
            ~> (~Stored(id) /\ Firings(id) # {})

\* A reminder that was two seconds or more overdue has been fired twice (its
\* first DELETE raised) and is out of the store.
C9_Witness ==
    \E id \in Ids :
        /\ Created(id) /\ ~Stored(id)
        /\ Cardinality(Firings(id)) = 2
        /\ now = MaxClock

\* ---------------- C11 ----------------
\* The step is a run of scheduler s in which a store statement raised.
SchedulerRaises(s) ==
    /\ Runnable(sched[s])
    /\ sched'[s] # sched[s]
    /\ storeFaults' > storeFaults

\* The step is the send of delivery loop w raising.
SendRaises(w) ==
    /\ worker[w].pc = "send"
    /\ sendLog'[worker[w].call].result = "failed"

\* C11 (the loops survive errors): a cycle of the scheduler in which a statement
\* raises ends in a sleep of SCHED_BACKOFF seconds, a send that raises ends in a
\* sleep of WORKER_BACKOFF seconds, no task ever ends, and a loop that backs
\* off starts another cycle.
C11_LoopsSurviveErrors ==
    /\ [][ /\ \A s \in Tasks :
                SchedulerRaises(s) =>
                    sched'[s] = [pc |-> "backoff", timer |-> SCHED_BACKOFF]
           /\ \A w \in Tasks :
                SendRaises(w) =>
                    worker'[w].pc = "backoff" /\ worker'[w].timer = WORKER_BACKOFF
           /\ \A t \in Tasks : sched'[t].pc # "done" /\ worker'[t].pc # "done" ]_vars
    /\ \A t \in Tasks : (sched[t].pc = "backoff") ~> (sched[t].pc = "sleep")
    /\ \A t \in Tasks : (worker[t].pc = "backoff") ~> (worker[t].pc \in {"idle", "send"})

\* A scheduler whose cycle raised has completed a later cycle, and a delivery
\* loop whose send raised is collecting or idling again.
C11_Witness ==
    /\ storeFaults > 0
    /\ \E s \in Tasks : sched[s].pc = "sleep"
    /\ \E c \in DOMAIN sendLog :
         /\ sendLog[c].result = "failed"
         /\ worker[sendLog[c].w].pc \in {"idle", "send"}

\* ---------------- C12 ----------------
\* The step is the send of call c raising.
SendFails(c) == sendLog[c].result = "pending" /\ sendLog'[c].result = "failed"

\* The number of the last fragment of the batch of call c.
LastOf(c) == sendLog[c].frags[Len(sendLog[c].frags)].n

\* Fragments that were on the deque before the collection of call c stopped:
\* the batch and, when the window cut the collection (a collection stops on a
\* deque that is not empty only then), the fragment behind the batch.
OnDequeBefore(c) ==
    { f \in Range(enqLog) :
        f.n <= LastOf(c) + (IF sendLog[c].elapsed > BURST_WINDOW THEN 1 ELSE 0) }

\* q is the last Len(q) entries of log.
IsSuffix(q, log) ==
    Len(q) <= Len(log) /\ q = SubSeq(log, Len(log) - Len(q) + 1, Len(log))

\* No send call made in the step carries a fragment of a batch whose send raised.
NeverResent ==
    \A c \in DOMAIN sendLog : \A d \in DOMAIN sendLog' :
        sendLog[c].result = "failed" /\ d \notin DOMAIN sendLog =>
            Range(sendLog'[d].frags) \cap Range(sendLog[c].frags) = {}

\* C12 as claimed: when the send of a batch raises, its fragments are not put
\* back and are never sent again, and the queue then holds, in enqueue order,
\* only fragments enqueued after the batch was collected: none that was on the
\* deque before the collection stopped.
C12_QueueHoldsLaterOnly ==
    [][ /\ NeverResent
        /\ \A c \in DOMAIN sendLog :
             SendFails(c) =>
                /\ IsSuffix(message_queue', enqLog')
                /\ Range(message_queue') \cap OnDequeBefore(c) = {} ]_vars

\* C12 as amended: when the send of a batch raises, its fragments are not put
\* back and are never sent again, and the queue then holds, in enqueue order,
\* exactly the fragments no collection has taken: those the collection left
\* behind when the burst window cut it, and those enqueued since.
C12_DroppedBatch ==
    [][ /\ NeverResent
        /\ \A c \in DOMAIN sendLog :
             SendFails(c) =>
                /\ message_queue' = SubSeq(enqLog', Len(Flatten(sendLog')) + 1,
                                           Len(enqLog'))
                /\ Range(message_queue') \cap Range(sendLog[c].frags) = {} ]_vars

\* The send of a batch whose collection the window cut has just raised, and the
\* fragment behind the batch is on the queue.
C12_Witness ==
    \E c \in DOMAIN sendLog :
        /\ sendLog[c].result = "failed"
        /\ sendLog[c].elapsed > BURST_WINDOW
        /\ worker[sendLog[c].w].pc = "backoff"
        /\ worker[sendLog[c].w].timer = WORKER_BACKOFF
        /\ \E f \in Range(message_queue) : f.n = LastOf(c) + 1

\* ---------------- C13 ----------------
\* C13 (single consumer): at most one queue_worker task and at most one
\* scheduler task exist, and every send call comes from the same delivery loop,
\* however often the ready event is delivered.
C13_SingleConsumer ==
    /\ Cardinality({ t \in Tasks : worker[t].pc # "none" }) <= 1
    /\ Cardinality({ t \in Tasks : sched[t].pc # "none" }) <= 1
    /\ \A c, d \in DOMAIN sendLog : sendLog[c].w = sendLog[d].w

\* ---------------- C14 ----------------
\* C14 (timezone precedence): the timezone name a reminder is created with is
\* the creating user's setting if there is one, else the channel's setting if
\* there is one, else "UTC"; the resolver has a result for every combination of
\* present and absent settings.
C14_TzPrecedence ==
    [][ /\ \A r \in reminders' \ reminders :
             r.original_tz =
                IF user_settings[r.user_id] # NoRow THEN user_settings[r.user_id]
                ELSE IF server_settings[r.channel_id] # NoRow
                     THEN server_settings[r.channel_id]
                     ELSE "UTC"
        /\ \A u \in Users, c \in Channels :
             get_tz_context(c, u).name \in {"UTC", user_settings[u], server_settings[c]}
                 \ {NoRow} ]_vars

\* The store holds a reminder created under the channel's setting, when the user
\* had none, and a later one created under the user's setting, which differs.
C14_Witness ==
    \E r, q \in reminders :
        /\ r.id < q.id
        /\ r.original_tz = "America/New_York"
        /\ server_settings[r.channel_id] = "America/New_York"
        /\ q.original_tz = "UTC"
        /\ user_settings[q.user_id] = "UTC"

\* ---------------- C15 ----------------
\* t matches ^\d+[dhms]$.
Matches(t) ==
    /\ Len(t) >= 2
    /\ \A i \in 1..(Len(t) - 1) : t[i] \in DigitChars
    /\ t[Len(t)] \in {"d", "h", "m", "s"}

\* An admin role is configured and the author does not carry it.
LacksAdmin(role_ids) == admin_role_id # "" /\ admin_role_id \notin role_ids

\* The step is a timezone command that names no zone of the tz database, or a
\* !settz of an author who lacks the admin role.
RejectedTzCommand ==
    \/ \E role_ids \in RoleSets, c \in Channels, tz \in TzInputs :
          /\ gettz(tz) = "None" \/ LacksAdmin(role_ids)
          /\ SetTz(role_ids, c, tz)
    \/ \E u \in Users, tz \in TzInputs : gettz(tz) = "None" /\ MyTz(u, tz)

\* The step leaves the three tables, the id sequence and the queue as they were.
NothingMutated ==
    UNCHANGED <<reminders, lastId, user_settings, server_settings, message_queue>>

C18_TzKeptFromCreation ==
    [][ /\ user_settings' # user_settings =>
             /\ UNCHANGED <<reminders, lastId, server_settings>>
             /\ Cardinality({ u \in Users : user_settings'[u] # user_settings[u] }) = 1
        /\ server_settings' # server_settings =>
             /\ UNCHANGED <<reminders, lastId, user_settings>>
             /\ Cardinality({ c \in Channels :
                                server_settings'[c] # server_settings[c] }) = 1
        /\ \A r \in reminders : \A q \in reminders' : q.id = r.id => q = r
        /\ \A i \in DOMAIN Enqueued :
             Enqueued[i].rid # 0 =>
                LET r == RowOf(Enqueued[i].rid)
                IN  Enqueued[i].local = LocalTime(IsoParse(r.remind_time), r.original_tz)
      ]_vars

\* A notification shows Eastern time although the creator's timezone now
\* resolves to UTC.
C18_Witness ==
    \E i \in DOMAIN enqLog :
        /\ enqLog[i].local = "EST"
        /\ \A u \in Users, c \in Channels : get_tz_context(c, u).name = "UTC"

\* ---------------- C16 ----------------
\* C16 (idempotent delete): on every table the program reaches, the DELETE of an
\* id that is not stored leaves the table as it is, the DELETE of a stored id
\* removes the row of that id and no other, and a second DELETE of the same id
\* changes nothing.
C16_IdempotentDelete ==
    \A id \in 0..(MaxReminders + 1) :
        LET after == Delete(reminders, id)
        IN  /\ ~Stored(id) => after = reminders
            /\ Stored(id) =>
                 /\ after = reminders \ {RowOf(id)}
                 /\ Cardinality(after) = Cardinality(reminders) - 1
            /\ Delete(after, id) = after

\* The scheduler has deleted reminder 1, whose id is now absent from the store,
\* and reminder 2 is stored.
C16_Witness ==
    /\ Created(1) /\ ~Stored(1) /\ Firings(1) # {}
    /\ Stored(2)

\* ---------------- C17 ----------------
\* C17 (ids are never reused): a reminder that is created gets an id greater
\* than every id in the store, every id that was ever fired and every id
\* assigned before, the reply names that id, and no two stored rows share an id.
C17_IdsNeverReused ==
    [][ /\ \A r \in reminders' \ reminders :
             /\ \A q \in reminders : q.id < r.id
             /\ \A i \in DOMAIN enqLog : enqLog[i].rid < r.id
             /\ lastId < r.id
             /\ reply' = Reply("reminder_set", r.id)
        /\ \A r, q \in reminders' : r.id = q.id => r = q ]_vars

\* Reminder 1, which held the highest id, was fired and deleted, and the store
\* holds reminder 2 alone, named by the last reply.
C17_Witness ==
    /\ ~Stored(1) /\ Firings(1) # {}
    /\ reminders # {} /\ \A r \in reminders : r.id = 2
    /\ reply = Reply("reminder_set", 2)

\* ---------------- C19 ----------------
\* A poll cycle was aborted by the DELETE of a reminder other than id, which is
\* still in the store, and reminder id has not been fired.
LeftUnfired(id) ==
    /\ Created(id) /\ Firings(id) = {}
    /\ \E j \in Ids : j # id /\ Stored(j) /\ Firings(j) # {}

C20_NoEmptyBatch == \A c \in DOMAIN sendLog : Len(sendLog[c].frags) >= 1

\* Two delivery loops run: one has made a send call, the other found the deque
\* empty and sleeps without having called send.
C20_Witness ==
    \E w, v \in Tasks :
        /\ worker[w].pc = "idle" /\ worker[w].call = 0
        /\ worker[v].call # 0
        /\ message_queue = <<>>

====
